---- MODULE Spec2Model ----
(***************************************************************************)
(* Model of parse_raw_stock (src/main.py): the decoder of the price feed   *)
(* text format.  A line of text is a sequence of tokens; a token is either *)
(* a word (a run of characters that contains none of the separators the    *)
(* code looks for) or an integer literal.  str.split, str.startswith, int  *)
(* and the DATA_SESSIONS pattern are computed on token sequences.          *)
(***************************************************************************)
EXTENDS Integers, Sequences, FiniteSets, TLC

\* ------------------------------------------------------------- tokens ---
W(str) == [s |-> str, n |-> 0]
N(i) == [s |-> "#", n |-> i]

EQ == W("=")
COMMA == W(",")
MARK == W("a")
LB == W("[")
RB == W("]")
SP == W(" ")
PCT20 == W("%20")

Symbols == {"=", ",", "a", "[", "]", " ", "%20", "#", "None"}

IsNum(t) == t.s = "#"
IsSpace(t) == t.s = " "

\* ------------------------------------------------------------- bounds ---
MaxHeader == 3
MaxRows == 3

\* --------------------------------------------------- string primitives ---
RECURSIVE Split(_, _)
Split(s, sep) ==
    IF \A i \in 1..Len(s) : s[i] # sep
    THEN <<s>>
    ELSE LET p == CHOOSE i \in 1..Len(s) :
                      s[i] = sep /\ \A j \in 1..(i - 1) : s[j] # sep
         IN  <<SubSeq(s, 1, p - 1)>> \o Split(SubSeq(s, p + 1, Len(s)), sep)

RECURSIVE LStrip(_)
LStrip(s) == IF s # <<>> /\ IsSpace(Head(s)) THEN LStrip(Tail(s)) ELSE s

RECURSIVE RStrip(_)
RStrip(s) ==
    IF s # <<>> /\ IsSpace(s[Len(s)]) THEN RStrip(SubSeq(s, 1, Len(s) - 1)) ELSE s

Strip(s) == RStrip(LStrip(s))

StartsWithMark(s) == s # <<>> /\ s[1] = MARK

\* int(x): succeeds on exactly one integer literal
IsInt(s) == Len(Strip(s)) = 1 /\ IsNum(Strip(s)[1])
IntOf(s) == Strip(s)[1].n

\* urllib.parse.unquote
Unquote(s) == [i \in 1..Len(s) |-> IF s[i] = PCT20 THEN SP ELSE s[i]]

\* data.strip().splitlines(): blank lines at both ends go, and so does the
\* white space before the first and after the last character
IsBlank(l) == Strip(l) = <<>>

RECURSIVE DropBlankHead(_)
DropBlankHead(d) ==
    IF d # <<>> /\ IsBlank(Head(d)) THEN DropBlankHead(Tail(d)) ELSE d

RECURSIVE DropBlankTail(_)
DropBlankTail(d) ==
    IF d # <<>> /\ IsBlank(d[Len(d)])
    THEN DropBlankTail(SubSeq(d, 1, Len(d) - 1)) ELSE d

StripLines(d) ==
    LET k == DropBlankTail(DropBlankHead(d))
    IN  [i \in 1..Len(k) |->
            IF i = 1 /\ i = Len(k) THEN Strip(k[i])
            ELSE IF i = 1 THEN LStrip(k[i])
            ELSE IF i = Len(k) THEN RStrip(k[i])
            ELSE k[i]]

\* ------------------------------------------------------- dictionaries ---
Has(m, k) == k \in DOMAIN m
Put(m, k, v) == [x \in (DOMAIN m) \cup {k} |-> IF x = k THEN v ELSE m[x]]
EmptyDict == [x \in {} |-> 0]

\* an exception: its type, what it names, and the source line that raises it
Raise(type, what, line) == [exc |-> type, what |-> what, line |-> line]
NoErr == Raise("", "", 0)

\* ------------------------------------------------------ datetime model ---
\* An aware datetime is its wall-clock reading (seconds since 1970-01-01 on
\* the zone's own clock) together with the zone's offset in minutes.
\* datetime.datetime.fromtimestamp(ts, tz=zone)
FromTimestampNaive(ts, off) == [wall |-> ts, off |-> off]
FromTimestamp(ts, off) == [wall |-> ts + 60 * off, off |-> off]

\* aware datetime + timedelta(seconds = secs)
AddSeconds(dt, secs) == [wall |-> dt.wall + secs, off |-> dt.off]

\* datetime.timestamp(): the instant, which is what aware datetimes compare by
Timestamp(dt) == dt.wall - 60 * dt.off

\* the calendar fields isoformat() prints
IsoFields(dt) ==
    LET days == dt.wall \div 86400
        secs == dt.wall % 86400
        z    == days + 719468
        era  == z \div 146097
        doe  == z - era * 146097
        yoe  == (doe - doe \div 1460 + doe \div 36524 - doe \div 146096) \div 365
        doy  == doe - (365 * yoe + yoe \div 4 - yoe \div 100)
        mp   == (5 * doy + 2) \div 153
        m    == IF mp < 10 THEN mp + 3 ELSE mp - 9
    IN  [year   |-> yoe + era * 400 + (IF m <= 2 THEN 1 ELSE 0),
         month  |-> m,
         day    |-> doy - (153 * mp + 2) \div 5 + 1,
         hour   |-> secs \div 3600,
         minute |-> (secs % 3600) \div 60,
         second |-> secs % 60,
         utcoffset |-> dt.off]

\* datetime.time(hour=mins // 60, minute=mins % 60, tzinfo=zone)
TimeOfDay(mins, off) == [hour |-> mins \div 60, minute |-> mins % 60, tzinfo |-> off]

\* ------------------------------------------------------- header scan ---
IsDigits(t) == IsNum(t) /\ t.n >= 0
IsCode(t) == IsDigits(t) \/ t.s \notin Symbols

\* one match of \[([A-Z0-9]+),([0-9]+),([0-9]+)\] starting at position p
MatchAt(v, p) ==
    /\ p + 6 <= Len(v)
    /\ v[p] = LB /\ IsCode(v[p + 1]) /\ v[p + 2] = COMMA
    /\ IsDigits(v[p + 3]) /\ v[p + 4] = COMMA /\ IsDigits(v[p + 5])
    /\ v[p + 6] = RB

RECURSIVE FindSessions(_, _, _)
FindSessions(v, p, acc) ==
    IF p > Len(v) THEN acc
    ELSE IF MatchAt(v, p)
         THEN FindSessions(v, p + 7,
                  Put(acc, v[p + 1], [start |-> v[p + 3].n, end |-> v[p + 5].n]))
         ELSE FindSessions(v, p + 1, acc)

\* the body of the header loop for the line at enumerate index i
HeaderStep(st, i, line) ==
    LET parts == Split(line, EQ)
        loc   == Put(st.locals, "header_len", i)
        key   == parts[1]
        value == parts[2]
        md    == st.metadata
    IN  IF Len(parts) # 2
        THEN [st EXCEPT !.locals = loc, !.stop = TRUE]
        ELSE IF key = <<W("INTERVAL")>>
        THEN IF IsInt(value)
             THEN [st EXCEPT !.locals = loc,
                             !.metadata = Put(md, "tick", IntOf(value))]
             ELSE [st EXCEPT !.locals = loc, !.err = Raise("ValueError", "INTERVAL", 44)]
        ELSE IF key = <<W("COLUMNS")>>
        THEN [st EXCEPT !.locals = Put(loc, "columns", Split(Strip(value), COMMA))]
        ELSE IF key = <<W("DATA_SESSIONS")>>
        THEN [st EXCEPT !.locals = loc,
                        !.metadata = Put(md, "sessions",
                                         FindSessions(value, 1, EmptyDict))]
        ELSE IF key = <<W("TIMEZONE_OFFSET")>>
        THEN IF IsInt(value) /\ IntOf(value) > -1440 /\ IntOf(value) < 1440
             THEN [st EXCEPT !.locals = loc,
                             !.metadata = Put(md, "timezone", IntOf(value))]
             ELSE [st EXCEPT !.locals = loc, !.err = Raise("ValueError", "TIMEZONE_OFFSET", 56)]
        ELSE [st EXCEPT !.locals = loc]

\* for header_len, line in enumerate(lines[1:]): ... (break on stop)
RECURSIVE HeaderLoop(_, _, _)
HeaderLoop(st, rest, i) ==
    IF rest = <<>> \/ st.stop \/ st.err # NoErr THEN st
    ELSE HeaderLoop(HeaderStep(st, i, Head(rest)), Tail(rest), i + 1)

ScanHeader(md, ls) ==
    HeaderLoop([metadata |-> md, locals |-> EmptyDict,
                stop |-> FALSE, err |-> NoErr],
               Tail(ls), 0)

\* the dict comprehension that rebuilds metadata['sessions']
LocalizeSessionsUTC(sessions, off) ==
    [k \in DOMAIN sessions |->
        [start |-> TimeOfDay(sessions[k].start, 0),
         end   |-> TimeOfDay(sessions[k].end, 0)]]
LocalizeSessions(sessions, off) ==
    [k \in DOMAIN sessions |->
        [start |-> TimeOfDay(sessions[k].start, off),
         end   |-> TimeOfDay(sessions[k].end, off)]]

\* if 'sessions' in metadata: ...  (result: the metadata and the exception)
Localize(md) ==
    IF ~Has(md, "sessions") \/ DOMAIN md["sessions"] = {}
    THEN [metadata |-> IF Has(md, "sessions")
                       THEN Put(md, "sessions", EmptyDict) ELSE md,
          err |-> NoErr]
    ELSE IF ~Has(md, "timezone")
    THEN [metadata |-> md, err |-> Raise("KeyError", "timezone", 64)]
    ELSE IF \E k \in DOMAIN md["sessions"] :
                \/ md["sessions"][k].start \div 60 > 23
                \/ md["sessions"][k].end \div 60 > 23
    THEN [metadata |-> md, err |-> Raise("ValueError", "hour", 62)]
    ELSE [metadata |-> Put(md, "sessions",
                           LocalizeSessions(md["sessions"], md["timezone"])),
          err |-> NoErr]

\* -------------------------------------------------------- row decoding ---
\* prices.append((time, *data))
PrependRow(prices, row) == <<row>> \o prices
AppendRow(prices, row) == Append(prices, row)

\* the branch "if rawtime.startswith('a')"
AbsoluteRow(st, rawtime, data) ==
    LET body == Tail(rawtime)
    IN  IF ~IsInt(body) THEN [st EXCEPT !.err = Raise("ValueError", "int", 77)]
        ELSE IF ~Has(st.metadata, "timezone")
        THEN [st EXCEPT !.err = Raise("KeyError", "timezone", 78)]
        ELSE LET time == FromTimestamp(IntOf(body), st.metadata["timezone"])
             IN  [st EXCEPT !.locals = Put(st.locals, "last_time", time),
                            !.prices = AppendRow(st.prices,
                                          [time |-> time, data |-> data])]

\* the branch "else": time = last_time + metadata['tick'] * int(rawtime)
RelativeRowCumulative(st, rawtime, data) ==
    IF ~Has(st.locals, "last_time")
    THEN [st EXCEPT !.err = Raise("UnboundLocalError", "last_time", 81)]
    ELSE IF ~Has(st.metadata, "tick") THEN [st EXCEPT !.err = Raise("KeyError", "tick", 81)]
    ELSE IF ~IsInt(rawtime) THEN [st EXCEPT !.err = Raise("ValueError", "int", 81)]
    ELSE LET time == AddSeconds(st.locals["last_time"],
                                st.metadata["tick"] * IntOf(rawtime))
         IN  [st EXCEPT !.locals = Put(st.locals, "last_time", time),
                        !.prices = AppendRow(st.prices,
                                      [time |-> time, data |-> data])]
RelativeRowEpoch(st, rawtime, data) ==
    IF ~Has(st.metadata, "tick") THEN [st EXCEPT !.err = Raise("KeyError", "tick", 81)]
    ELSE IF ~IsInt(rawtime) THEN [st EXCEPT !.err = Raise("ValueError", "int", 81)]
    ELSE LET last == IF Has(st.locals, "last_time") THEN st.locals["last_time"]
                     ELSE FromTimestamp(0, 0)
             time == AddSeconds(last, st.metadata["tick"] * IntOf(rawtime))
         IN  [st EXCEPT !.prices = AppendRow(st.prices,
                                      [time |-> time, data |-> data])]
RelativeRow(st, rawtime, data) ==
    IF ~Has(st.locals, "last_time")
    THEN [st EXCEPT !.err = Raise("UnboundLocalError", "last_time", 81)]
    ELSE IF ~Has(st.metadata, "tick") THEN [st EXCEPT !.err = Raise("KeyError", "tick", 81)]
    ELSE IF ~IsInt(rawtime) THEN [st EXCEPT !.err = Raise("ValueError", "int", 81)]
    ELSE LET time == AddSeconds(st.locals["last_time"],
                                st.metadata["tick"] * IntOf(rawtime))
         IN  [st EXCEPT !.prices = AppendRow(st.prices,
                                      [time |-> time, data |-> data])]

\* the body of the row loop
RowStep(st, line) ==
    LET fields  == Split(line, COMMA)
        rawtime == Head(fields)
        data    == Tail(fields)
    IN  IF StartsWithMark(rawtime) THEN AbsoluteRow(st, rawtime, data)
        ELSE RelativeRow(st, rawtime, data)

RECURSIVE RowLoop(_, _)
RowLoop(st, rest) ==
    IF rest = <<>> \/ st.err # NoErr THEN st
    ELSE RowLoop(RowStep(st, Head(rest)), Tail(rest))

\* lines[header_len + 1:]
DataLines(ls, header_len) == SubSeq(ls, header_len + 2, Len(ls))

\* ------------------------------------------------------- the DataFrame ---
NoneCell == <<W("None")>>
DATE == <<W("DATE")>>

Max(S) == CHOOSE x \in S : \A y \in S : y <= x
Width(prices) == Max({1 + Len(prices[i].data) : i \in 1..Len(prices)})

\* rows shorter than the widest row are filled up with None
PadRow(row, width) ==
    [row EXCEPT !.data = [k \in 1..(width - 1) |->
                             IF k <= Len(row.data) THEN row.data[k] ELSE NoneCell]]

\* the cell of a row under the k-th column name
Cell(row, k) == IF k = 1 THEN row.time ELSE row.data[k - 1]

\* set_index('DATE'): the row is keyed by its cell in the DATE column
IndexRow(row, columns) ==
    LET d == CHOOSE k \in 1..Len(columns) :
                 columns[k] = DATE /\ \A j \in 1..(k - 1) : columns[j] # DATE
    IN  [index |-> Cell(row, d), time |-> row.time, data |-> row.data]

\* pandas.DataFrame(prices, columns=columns).set_index('DATE'): the table is
\* as wide as the widest tuple, a width other than len(columns) raises
\* ValueError, and a missing DATE column raises KeyError
BuildFrame(prices, locals) ==
    IF ~Has(locals, "columns")
    THEN [err |-> Raise("UnboundLocalError", "columns", 85), frame |-> <<>>]
    ELSE LET columns == locals["columns"]
         IN  IF prices # <<>> /\ Width(prices) # Len(columns)
             THEN [err |-> Raise("ValueError", "columns", 85), frame |-> <<>>]
             ELSE IF \A k \in 1..Len(columns) : columns[k] # DATE
             THEN [err |-> Raise("KeyError", "DATE", 85), frame |-> <<>>]
             ELSE [err |-> NoErr,
                   frame |-> [i \in 1..Len(prices) |->
                                 IndexRow(PadRow(prices[i], Len(columns)),
                                          columns)]]

\* ------------------------------------------------------------- inputs ---
Line(key, value) == <<W(key), EQ>> \o value

MarketLine == <<W("MARKET")>>

HeaderCat ==
    { Line("INTERVAL", <<N(60)>>),
      Line("COLUMNS", <<DATE[1], COMMA, W("CLOSE")>>),
      Line("DATA_SESSIONS", <<LB, W("USA"), COMMA, N(570), COMMA, N(960), RB>>),
      Line("TIMEZONE_OFFSET", <<N(-300)>>),
      Line("TIMEZONE_OFFSET", <<N(60)>>),
      Line("FOO", <<W("A"), EQ, W("B")>>) }

RowCat ==
    { <<MARK, N(100), COMMA, N(1)>>,
      <<MARK, N(50), COMMA, N(2)>>,
      <<N(1), COMMA, N(3)>>,
      <<N(2), COMMA, N(4)>>,
      <<N(1)>>,
      <<N(1), COMMA, N(3), COMMA, N(4)>> }

\* the sequences of at most n different members of S
SeqsUpTo(S, n) ==
    {q \in UNION {[1..k -> S] : k \in 0..n} :
        \A i, j \in 1..Len(q) : q[i] = q[j] => i = j}

\* the end-to-end scenario
EndToEnd ==
    << <<W("NYSE")>>,
       Line("INTERVAL", <<N(86400)>>),
       Line("COLUMNS", <<DATE[1], COMMA, W("CLOSE"), COMMA, W("HIGH"), COMMA,
                         W("LOW"), COMMA, W("OPEN"), COMMA, W("VOLUME")>>),
       Line("TIMEZONE_OFFSET", <<N(-300)>>),
       <<MARK, N(1609459200), COMMA, N(100), COMMA, N(105), COMMA, N(95),
         COMMA, N(98), COMMA, N(1000)>>,
       <<N(1), COMMA, N(102), COMMA, N(106), COMMA, N(96), COMMA, N(99),
         COMMA, N(1100)>> >>

\* "MARKET\nCOLUMNS=DATE,CLOSE\n5,10.0"
NoAnchorText ==
    << MarketLine, Line("COLUMNS", <<DATE[1], COMMA, W("CLOSE")>>),
       <<N(5), COMMA, W("10.0")>> >>

\* "MARKET\nINTERVAL=86400\n"
NoColumnsText == << MarketLine, Line("INTERVAL", <<N(86400)>>), <<>> >>

\* "MARKET\nDATA_SESSIONS=[USA,570,960]\nCOLUMNS=DATE,CLOSE\na1000,1"
NoTimezoneText ==
    << MarketLine,
       Line("DATA_SESSIONS", <<LB, W("USA"), COMMA, N(570), COMMA, N(960), RB>>),
       Line("COLUMNS", <<DATE[1], COMMA, W("CLOSE")>>),
       <<MARK, N(1000), COMMA, N(1)>> >>

\* further texts: a percent-encoded label, a malformed session triple, a
\* session past midnight, non-integer header values, a blank separator
\* line, an unrecognized key, a repeated row
OtherTexts ==
    { << <<SP>>, <<W("NEW"), PCT20, W("YORK"), SP>>,
         Line("TIMEZONE_OFFSET", <<N(60)>>),
         Line("DATA_SESSIONS", <<LB, W("USA"), COMMA, N(570), RB, LB, N(1),
                                 COMMA, N(0), COMMA, N(90), RB>>),
         Line("COLUMNS", <<SP, W("CLOSE"), COMMA, DATE[1], SP>>),
         <<>>,
         <<MARK, N(7), COMMA, N(1)>>, <<SP>> >>,
      << MarketLine, Line("TIMEZONE_OFFSET", <<N(0)>>),
         Line("DATA_SESSIONS", <<LB, W("USA"), COMMA, N(1440), COMMA, N(5), RB>>),
         <<W("x")>> >>,
      << MarketLine, Line("INTERVAL", <<W("1h")>>) >>,
      << MarketLine, Line("FOO", <<N(1)>>), Line("TIMEZONE_OFFSET", <<N(0)>>),
         Line("COLUMNS", <<DATE[1], COMMA, W("CLOSE")>>),
         <<MARK, N(7), COMMA, N(1)>>, <<MARK, N(7), COMMA, N(1)>> >>,
      << MarketLine, Line("TIMEZONE_OFFSET", <<N(1440)>>) >>,
      << MarketLine, Line("COLUMNS", <<W("CLOSE")>>), <<>>, <<>> >>,
      << MarketLine, Line("TIMEZONE_OFFSET", <<N(0)>>), <<MARK>> >>,
      << MarketLine, Line("TIMEZONE_OFFSET", <<N(0)>>),
         <<MARK, N(5)>>, <<W("x")>> >>,
      << MarketLine >>, << >>, << <<>>, <<SP>> >> }

Inputs ==
    {<<MarketLine>> \o h \o r :
        h \in SeqsUpTo(HeaderCat, MaxHeader), r \in SeqsUpTo(RowCat, MaxRows)}
    \cup {EndToEnd, NoAnchorText, NoColumnsText, NoTimezoneText}
    \cup OtherTexts

\* -------------------------------------------------------------- state ---
VARIABLES data, pc, lines, metadata, locals, prices, err, frame

vars == <<data, pc, lines, metadata, locals, prices, err, frame>>

Init ==
    /\ data \in Inputs
    /\ pc = "start"
    /\ lines = <<>>
    /\ metadata = EmptyDict
    /\ locals = EmptyDict
    /\ prices = <<>>
    /\ err = NoErr
    /\ frame = <<>>

Goto(e, next) == IF e = NoErr THEN next ELSE "error"

\* lines = data.strip().splitlines(); metadata = {'market': unquote(lines[0])}
Start ==
    /\ pc = "start"
    /\ lines' = StripLines(data)
    /\ IF lines' = <<>>
       THEN err' = Raise("IndexError", "lines", 34) /\ metadata' = metadata
       ELSE err' = NoErr /\ metadata' = [market |-> Unquote(lines'[1])]
    /\ pc' = Goto(err', "header")
    /\ UNCHANGED <<data, locals, prices, frame>>

\* the header loop
Header ==
    /\ pc = "header"
    /\ LET st == ScanHeader(metadata, lines)
       IN  /\ metadata' = st.metadata
           /\ locals' = st.locals
           /\ err' = st.err
    /\ pc' = Goto(err', "sessions")
    /\ UNCHANGED <<data, lines, prices, frame>>

\* the session localisation
Sessions ==
    /\ pc = "sessions"
    /\ LET r == Localize(metadata)
       IN  metadata' = r.metadata /\ err' = r.err
    /\ pc' = Goto(err', "rows")
    /\ UNCHANGED <<data, lines, locals, prices, frame>>

\* prices = []; the row loop
Rows ==
    /\ pc = "rows"
    /\ IF ~Has(locals, "header_len")
       THEN /\ err' = Raise("UnboundLocalError", "header_len", 72)
            /\ UNCHANGED <<locals, prices>>
       ELSE LET st == RowLoop([metadata |-> metadata, locals |-> locals,
                               prices |-> <<>>, err |-> NoErr],
                              DataLines(lines, locals["header_len"]))
            IN  /\ locals' = st.locals
                /\ prices' = st.prices
                /\ err' = st.err
    /\ pc' = Goto(err', "frame")
    /\ UNCHANGED <<data, lines, metadata, frame>>

\* the DataFrame construction and the return
Frame ==
    /\ pc = "frame"
    /\ LET r == BuildFrame(prices, locals)
       IN  frame' = r.frame /\ err' = r.err
    /\ pc' = Goto(err', "done")
    /\ UNCHANGED <<data, lines, metadata, locals, prices>>

Next == Start \/ Header \/ Sessions \/ Rows \/ Frame

Spec == Init /\ [][Next]_vars

\* ---------------------------------------------- reading the input text ---
\* (stated on the text alone, independently of the decoder's operators)
EqCount(l) == Cardinality({i \in 1..Len(l) : l[i] = EQ})
CommaCount(l) == Cardinality({i \in 1..Len(l) : l[i] = COMMA})

HasKey(l, key) == EqCount(l) = 1 /\ Len(l) >= 2 /\ l[1] = W(key) /\ l[2] = EQ

\* index of the first line after the market label without any '='
FirstNoEq(ls) ==
    IF \E i \in 2..Len(ls) : EqCount(ls[i]) = 0
    THEN CHOOSE i \in 2..Len(ls) :
             EqCount(ls[i]) = 0 /\ \A j \in 2..(i - 1) : EqCount(ls[j]) # 0
    ELSE Len(ls) + 1

\* index of the first line after the market label that is not KEY=VALUE
FirstNonKV(ls) ==
    IF \E i \in 2..Len(ls) : EqCount(ls[i]) # 1
    THEN CHOOSE i \in 2..Len(ls) :
             EqCount(ls[i]) # 1 /\ \A j \in 2..(i - 1) : EqCount(ls[j]) = 1
    ELSE Len(ls) + 1

RowIsAbs(l) == l # <<>> /\ l[1] = MARK
RowIsRel(l) == ~RowIsAbs(l)
RowIsPlainInt(l) == l # <<>> /\ IsNum(l[1]) /\ (Len(l) = 1 \/ l[2] = COMMA)
RowOffset(l) == l[1].n
RowAbsValue(l) == l[2].n

Finished == pc \in {"done", "error"}

\* the text line the i-th row of the returned table was decoded from
RowLine(i) == lines[Len(lines) - Len(frame) + i]

MissingAnchor == Raise("UnboundLocalError", "last_time", 81)
MissingSchema == Raise("UnboundLocalError", "columns", 85)

\* ------------------------------------------------------------ claims ---

\* C1: in a returned table, a row whose time token is a plain integer n has
\* the time T + n * tick, T being the time of the most recent preceding
\* absolute-marker row; relative rows leave the anchor alone and every
\* absolute-marker row has its own timestamp (and becomes the anchor).
C1_RelativeFromAnchor ==
    pc = "done" =>
        \A i \in 1..Len(frame) :
            /\ RowIsAbs(RowLine(i)) =>
                   /\ Timestamp(frame[i].time) = RowAbsValue(RowLine(i))
                   /\ frame[i].time.off = metadata["timezone"]
            /\ RowIsPlainInt(RowLine(i)) =>
                   \E j \in 1..(i - 1) :
                       /\ RowIsAbs(RowLine(j))
                       /\ \A k \in (j + 1)..(i - 1) : ~RowIsAbs(RowLine(k))
                       /\ Timestamp(frame[i].time) =
                              RowAbsValue(RowLine(j))
                              + RowOffset(RowLine(i)) * metadata["tick"]
                       /\ frame[i].time.off = metadata["timezone"]

\* two consecutive relative rows with different offsets were decoded
C1_Witness ==
    /\ pc = "done"
    /\ \E i \in 2..(Len(frame) - 1) :
           /\ RowIsPlainInt(RowLine(i)) /\ RowIsPlainInt(RowLine(i + 1))
           /\ RowOffset(RowLine(i)) # RowOffset(RowLine(i + 1))
           /\ RowOffset(RowLine(i)) # 0

\* the result the end-to-end scenario is said to have, given the two dates
E2EResult(date0, date1) ==
    /\ metadata["market"] = <<W("NYSE")>>
    /\ metadata["tick"] = 86400
    /\ metadata["timezone"] = -300
    /\ Len(frame) = 2
    /\ IsoFields(frame[1].index) = date0
    /\ frame[1].data = << <<N(100)>>, <<N(105)>>, <<N(95)>>, <<N(98)>>, <<N(1000)>> >>
    /\ IsoFields(frame[2].index) = date1
    /\ frame[2].data = << <<N(102)>>, <<N(106)>>, <<N(96)>>, <<N(99)>>, <<N(1100)>> >>

IsoDate(y, m, d, hh, mm, ss, off) ==
    [year |-> y, month |-> m, day |-> d, hour |-> hh, minute |-> mm,
     second |-> ss, utcoffset |-> off]

\* C2 as stated: the scenario decodes to rows at 2021-01-01T00:00:00-05:00
\* and 2021-01-02T00:00:00-05:00.
C2_AsStated ==
    (data = EndToEnd /\ Finished) =>
        /\ pc = "done"
        /\ E2EResult(IsoDate(2021, 1, 1, 0, 0, 0, -300),
                     IsoDate(2021, 1, 2, 0, 0, 0, -300))

\* C2 amended: the scenario decodes to market NYSE, tick 86400 s, zone
\* UTC-05:00 and two rows in input order, at 2020-12-31T19:00:00-05:00 and
\* 2021-01-01T19:00:00-05:00 (the instants 1609459200 and 1609545600).
C2_EndToEnd ==
    (data = EndToEnd /\ Finished) =>
        /\ pc = "done"
        /\ E2EResult(IsoDate(2020, 12, 31, 19, 0, 0, -300),
                     IsoDate(2021, 1, 1, 19, 0, 0, -300))
        /\ Timestamp(frame[1].index) = 1609459200
        /\ Timestamp(frame[2].index) = 1609545600

C2_Witness == data = EndToEnd /\ pc = "done" /\ Len(frame) = 2

\* C3 as stated: whenever the first line of the data section (the lines from
\* the first line without '=' on) is a relative row, the call fails with the
\* missing-anchor error.
C3_AsStated ==
    (Finished /\ FirstNoEq(lines) <= Len(lines)
              /\ RowIsRel(lines[FirstNoEq(lines)])) =>
        pc = "error" /\ err = MissingAnchor

\* C3 amended: whenever the first line the decoder takes as a data row is a
\* relative row, the call fails and returns nothing, also when absolute
\* rows follow; the failure is the missing-anchor error unless the header
\* scan or the session localisation has already failed.
C3_MissingAnchor ==
    (Finished /\ FirstNonKV(lines) <= Len(lines)
              /\ RowIsRel(lines[FirstNonKV(lines)])) =>
        /\ pc = "error"
        /\ frame = <<>>
        /\ (err.line >= 70) => err = MissingAnchor

\* a relative first row followed by an absolute row ended in MissingAnchor
C3_Witness ==
    /\ pc = "error" /\ err = MissingAnchor
    /\ FirstNonKV(lines) < Len(lines)
    /\ RowIsRel(lines[FirstNonKV(lines)])
    /\ \E k \in (FirstNonKV(lines) + 1)..Len(lines) : RowIsAbs(lines[k])
    /\ \E k \in 2..Len(lines) : HasKey(lines[k], "TIMEZONE_OFFSET")

\* the header lines as the text format defines them: the lines after the
\* market label up to the first line without '='
HeaderIdx(ls) == 2..(FirstNoEq(ls) - 1)
DataIdx(ls) == FirstNoEq(ls)..Len(ls)

HasHeader(ls, key) == \E i \in HeaderIdx(ls) : HasKey(ls[i], key)
LastWithKey(ls, key) ==
    CHOOSE i \in HeaderIdx(ls) :
        HasKey(ls[i], key)
        /\ \A j \in HeaderIdx(ls) : HasKey(ls[j], key) => j <= i

\* a row token the decoder can read: a<integer> or a plain integer
TokenDecodes(l) ==
    \/ RowIsPlainInt(l)
    \/ RowIsAbs(l) /\ Len(l) >= 2 /\ IsNum(l[2]) /\ (Len(l) = 2 \/ l[3] = COMMA)

\* nothing but the schema can be at fault: the header raises no error of
\* its own, and the data section is empty or begins with an absolute row,
\* has readable time tokens and has the zone and the tick it needs
OnlySchemaCanFail ==
    /\ err = NoErr \/ err.line >= 70
    /\ DataIdx(lines) # {} =>
           /\ RowIsAbs(lines[FirstNoEq(lines)])
           /\ \A k \in DataIdx(lines) : TokenDecodes(lines[k])
           /\ HasHeader(lines, "TIMEZONE_OFFSET") /\ HasHeader(lines, "INTERVAL")

\* C4: an input whose header has no COLUMNS line fails with the
\* missing-schema error, not with an error raised while a line is decoded
\* as a price row (stated for the inputs with no other fault, the text
\* "MARKET, INTERVAL=86400" among them).
C4_MissingSchema ==
    (Finished /\ Len(lines) >= 2 /\ ~HasHeader(lines, "COLUMNS")
              /\ OnlySchemaCanFail) =>
        pc = "error" /\ err = MissingSchema

\* the header lines the scan accepts: the KEY=VALUE lines before the first
\* line that is not KEY=VALUE
ScannedIdx(ls) == 2..(FirstNonKV(ls) - 1)

Swap(ls, i, j) ==
    [k \in 1..Len(ls) |-> IF k = i THEN ls[j] ELSE IF k = j THEN ls[i] ELSE ls[k]]

\* the metadata a text's header yields
HeaderResult(ls) ==
    LET st == ScanHeader([market |-> Unquote(ls[1])], ls)
    IN  IF st.err # NoErr THEN [metadata |-> st.metadata, err |-> st.err]
        ELSE Localize(st.metadata)

IsZoneLine(l) == HasKey(l, "TIMEZONE_OFFSET")
IsSessionsLine(l) == HasKey(l, "DATA_SESSIONS")

\* C5: when the header has a DATA_SESSIONS line and a TIMEZONE_OFFSET line,
\* in either order, every session's start and end carry the zone of the
\* (last) TIMEZONE_OFFSET line, and exchanging the two lines in the text
\* gives the same metadata.
C5_SessionsZone ==
    pc \in {"rows", "frame", "done"} =>
        \A i, j \in ScannedIdx(lines) :
            (IsSessionsLine(lines[i]) /\ IsZoneLine(lines[j])) =>
                /\ Has(metadata, "sessions") /\ Has(metadata, "timezone")
                /\ \A z \in ScannedIdx(lines) :
                       (IsZoneLine(lines[z])
                        /\ \A y \in ScannedIdx(lines) :
                               IsZoneLine(lines[y]) => y <= z)
                       => \A k \in DOMAIN metadata["sessions"] :
                              /\ metadata["sessions"][k].start.tzinfo = lines[z][3].n
                              /\ metadata["sessions"][k].end.tzinfo = lines[z][3].n
                /\ (\A k \in ScannedIdx(lines) :
                        ((i < k /\ k < j) \/ (j < k /\ k < i)) =>
                            ~IsSessionsLine(lines[k]) /\ ~IsZoneLine(lines[k]))
                   => HeaderResult(Swap(lines, i, j))
                          = [metadata |-> metadata, err |-> NoErr]

\* a returned result whose text has the offset after the sessions
C5_Witness ==
    /\ pc = "done"
    /\ Has(metadata, "sessions") /\ DOMAIN metadata["sessions"] # {}
    /\ \E i, j \in ScannedIdx(lines) :
           i < j /\ IsSessionsLine(lines[i]) /\ IsZoneLine(lines[j])

WellFormedRow(l, ncols) ==
    /\ EqCount(l) = 0
    /\ CommaCount(l) = ncols - 1
    /\ \/ RowIsPlainInt(l)
       \/ RowIsAbs(l) /\ Len(l) >= 2 /\ IsNum(l[2])
                      /\ (Len(l) = 2 \/ l[3] = COMMA)

\* C6: without DATA_SESSIONS and without TIMEZONE_OFFSET, an input with
\* INTERVAL, COLUMNS and well-formed rows that begin with an absolute row
\* decodes without error and returns its rows.
C6_ZoneOptional ==
    (/\ Finished /\ lines # <<>>
     /\ ~HasHeader(lines, "DATA_SESSIONS") /\ ~HasHeader(lines, "TIMEZONE_OFFSET")
     /\ HasHeader(lines, "INTERVAL") /\ HasHeader(lines, "COLUMNS")
     /\ \A i \in HeaderIdx(lines) : EqCount(lines[i]) = 1
     /\ DataIdx(lines) # {} /\ RowIsAbs(lines[FirstNoEq(lines)])
     /\ \A k \in DataIdx(lines) :
            WellFormedRow(lines[k],
                          CommaCount(lines[LastWithKey(lines, "COLUMNS")]) + 1))
    => (pc = "done" /\ Len(frame) = Cardinality(DataIdx(lines)))

\* C7: when some data line has a number of value fields other than the
\* number of COLUMNS names minus one, the call fails and returns no table.
C7_FieldCount ==
    (/\ Finished /\ lines # <<>> /\ HasHeader(lines, "COLUMNS")
     /\ \E k \in DataIdx(lines) :
            CommaCount(lines[k]) # CommaCount(lines[LastWithKey(lines, "COLUMNS")]))
    => (pc = "error" /\ frame = <<>>)

\* C8 as stated: in every returned table the row times are non-decreasing.
C8_AsStated ==
    pc = "done" =>
        \A i \in 1..(Len(frame) - 1) :
            Timestamp(frame[i].time) <= Timestamp(frame[i + 1].time)

OffsetOrZero(l) == IF RowIsAbs(l) THEN 0 ELSE RowOffset(l)

\* C8 amended: a returned table keeps the rows in input-line order (row i
\* holds the values of the i-th decoded line, nothing is sorted); a relative
\* row is never earlier than the row before it when its offset is not
\* smaller than that row's (an absolute row counting as offset 0) and the
\* tick is not negative.  Nothing orders a row against a later absolute row.
C8_FeedOrder ==
    pc = "done" =>
        /\ \A i \in 1..Len(frame) :
               \A k \in 1..CommaCount(RowLine(i)) :
                   frame[i].data[k] = Split(RowLine(i), COMMA)[k + 1]
        /\ \A i \in 1..(Len(frame) - 1) :
               (/\ RowIsPlainInt(RowLine(i + 1))
                /\ RowOffset(RowLine(i + 1)) >= OffsetOrZero(RowLine(i))
                /\ metadata["tick"] >= 0)
               => Timestamp(frame[i].time) <= Timestamp(frame[i + 1].time)

\* a returned table of three rows with distinct values, the last two relative
C8_Witness ==
    /\ pc = "done" /\ Len(frame) = 3
    /\ frame[1].data # frame[2].data /\ frame[2].data # frame[3].data
    /\ RowIsPlainInt(RowLine(2)) /\ RowIsPlainInt(RowLine(3))
    /\ Timestamp(frame[2].time) < Timestamp(frame[3].time)

\* C9: the rows decoded are exactly the lines from the first line without
\* '=' on; when every line after the market label has an '=', no line is
\* decoded as a row and no error comes from the row loop.
C9_DataSection ==
    /\ pc \in {"frame", "done"} =>
           Len(prices) = Len(lines) - FirstNoEq(lines) + 1
    /\ (Finished /\ Len(lines) >= 2 /\ DataIdx(lines) = {}) =>
           (prices = <<>> /\ (err.line < 72 \/ err.line > 83))

\* C10: a header line with two or more '=' is split at its first '=': the
\* scan goes on past it, and the recognized keys of later header lines are
\* applied.
C10_SplitFirstEq ==
    pc = "sessions" =>
        \A i \in HeaderIdx(lines) :
            EqCount(lines[i]) >= 2 =>
                /\ i < Len(lines) => locals["header_len"] + 2 > i
                /\ \A k \in HeaderIdx(lines) :
                       k > i =>
                           /\ HasKey(lines[k], "INTERVAL") => Has(metadata, "tick")
                           /\ HasKey(lines[k], "TIMEZONE_OFFSET") =>
                                  Has(metadata, "timezone")
                           /\ HasKey(lines[k], "DATA_SESSIONS") =>
                                  Has(metadata, "sessions")
                           /\ HasKey(lines[k], "COLUMNS") => Has(locals, "columns")

====
